---------------------------- MODULE Spec2Model ----------------------------
(***************************************************************************)
(* Model of bank-statement-analyzer.tsx: the BankAnalyzer engine (pattern  *)
(* grouping, fraud heuristics, opportunity rules) and the upload component *)
(* BankStatementAnalyzer that parses a workbook and runs the engine.       *)
(*                                                                         *)
(* A Date is the record [valid, time]: time is the time value in minutes   *)
(* since the epoch (UTC); an Invalid Date has valid = FALSE.  A JavaScript *)
(* number that is the result of a division is the record [nan, num, den].  *)
(* A JavaScript array is a sequence; its own keys are "0" .. "n-1".        *)
(***************************************************************************)
EXTENDS Integers, Sequences, FiniteSets, TLC

VARIABLES
    transactions,     \* BankAnalyzer.transactions of the analyzer last constructed
    tzOffset,         \* host time zone, minutes east of UTC (what getHours() adds)
    patterns,         \* value returned by analyzeTransactionPatterns(), or Null
    fraudIndicators,  \* value returned by detectFraudIndicators(), or Null
    opportunities,    \* value returned by analyzeBusinessOpportunities(), or Null
    thrown,           \* message of the exception an engine call raised, or NoMessage
    results,          \* useState: results
    loading,          \* useState: loading
    error,            \* useState: error
    balanceTrend,     \* useState: balanceTrend
    pending,          \* processFile invocations suspended at await file.arrayBuffer()
    started,          \* number of processFile invocations started so far
    latest,           \* the invocation started most recently (id and file), or Null
    sheetRows         \* rows of the Transactions sheet read by the last continuation

vars == <<transactions, tzOffset, patterns, fraudIndicators, opportunities, thrown,
          results, loading, error, balanceTrend, pending, started, latest, sheetRows>>

engineVars == <<transactions, tzOffset, patterns, fraudIndicators, opportunities, thrown>>

componentVars == <<results, loading, error, balanceTrend, pending, started, latest, sheetRows>>

\* JavaScript null / undefined held in a variable
Null == [null |-> TRUE]

\* error === null
NoMessage == "null"

---------------------------------------------------------------------------
(* Bounds of the model *)

MaxPatternTx == 6

MaxVelocityTx == 8

MaxTimingTx == 2

MaxOppTx == 3

MaxRatioTx == 10

MaxEngineTx == 2

MaxRows == 2

MaxUploads == 2

---------------------------------------------------------------------------
(* Dates *)

MinutesPerHour == 60

HoursPerDay == 24

MinutesPerDay == MinutesPerHour * HoursPerDay

ValidDate(t) == [valid |-> TRUE, time |-> t]

InvalidDate == [valid |-> FALSE, time |-> 0]

\* new Date(d).toISOString().slice(0, 13): "YYYY-MM-DDTHH" of the UTC time,
\* held as the UTC day number and the UTC hour of day that the prefix spells.
IsoHourPrefix(d) ==
    [day  |-> d.time \div MinutesPerDay,
     hour |-> (d.time % MinutesPerDay) \div MinutesPerHour]

\* new Date(d).getHours(): the hour of day on the host's local clock.
getHours(d, tz) == ((d.time + tz) % MinutesPerDay) \div MinutesPerHour

---------------------------------------------------------------------------
(* lodash groupBy / filter over an object *)

\* An own key of a JavaScript object is enumerated as an array index when it
\* spells an integer in 0 .. 2^32 - 2 (every integer of the model is below 2^31).
IsArrayIndex(n) == n >= 0

\* _.groupBy(collection, t => t.amount): one property per String(amount), its
\* value the members in the order met; properties in the order first created.
groupByAmount(collection) ==
    LET acc[i \in 0..Len(collection)] ==
          IF i = 0 THEN <<>>
          ELSE LET prev == acc[i - 1]
                   t    == collection[i]
                   k    == ToString(t.amount)
                   hit  == {j \in 1..Len(prev) : prev[j].key = k}
               IN  IF hit = {}
                   THEN Append(prev, [key |-> k, num |-> t.amount, members |-> <<t>>])
                   ELSE LET j == CHOOSE j \in hit : TRUE
                        IN  [prev EXCEPT ![j].members = Append(@, t)]
    IN  acc[Len(collection)]

\* _.groupBy(collection, t => new Date(t.date).toISOString().slice(0, 13))
groupByIsoHour(collection) ==
    LET acc[i \in 0..Len(collection)] ==
          IF i = 0 THEN <<>>
          ELSE LET prev == acc[i - 1]
                   t    == collection[i]
                   k    == IsoHourPrefix(t.date)
                   hit  == {j \in 1..Len(prev) : prev[j].key = k}
               IN  IF hit = {}
                   THEN Append(prev, [key |-> k, members |-> <<t>>])
                   ELSE LET j == CHOOSE j \in hit : TRUE
                        IN  [prev EXCEPT ![j].members = Append(@, t)]
    IN  acc[Len(collection)]

\* Order in which the own keys of the amount-keyed object are enumerated:
\* array-index keys ascending, then the other keys in creation order.
OwnKeyOrder(groups) ==
    LET idx   == {j \in 1..Len(groups) : IsArrayIndex(groups[j].num)}
        Rank(j) == Cardinality({i \in idx : groups[i].num < groups[j].num}) + 1
        sorted == [r \in 1..Cardinality(idx) |-> groups[CHOOSE j \in idx : Rank(j) = r]]
    IN  sorted \o SelectSeq(groups, LAMBDA g : ~IsArrayIndex(g.num))

\* _.filter(object, predicate).value(): an ARRAY of the property values that
\* pass, in enumeration order; the property names are not kept.
\* `passing` is the set of property values the predicate accepts.
filterValues(groups, passing) ==
    LET kept == SelectSeq(groups, LAMBDA g : g.members \in passing)
    IN  [i \in 1..Len(kept) |-> kept[i].members]

\* the property values of a grouped object
Values(groups) == {groups[i].members : i \in 1..Len(groups)}

\* Object.keys(array): the indices "0" .. "length-1"
ObjectKeys(array) == {ToString(i - 1) : i \in 1..Len(array)}

---------------------------------------------------------------------------
(* BankAnalyzer *)

velocityLimit == 5

suspiciousTimeRangeStart == 23

suspiciousTimeRangeEnd == 4

regularIncomeMinSize == 3

recurringExpensesMinSize == 2

IsRegularIncomeOffByOne(group) == Len(group) > regularIncomeMinSize

\* group => group.length >= 3
IsRegularIncome(group) == Len(group) >= regularIncomeMinSize

\* group => group.length >= 2
IsRecurringExpense(group) == Len(group) >= recurringExpensesMinSize

analyzeTransactionPatterns(txs) ==
    LET credits == SelectSeq(txs, LAMBDA t : t.type = "Credit")
        debits  == SelectSeq(txs, LAMBDA t : t.type = "Debit")
        byCredit == OwnKeyOrder(groupByAmount(credits))
        byDebit  == OwnKeyOrder(groupByAmount(debits))
    IN  [regularIncome     |->
             filterValues(byCredit, {g \in Values(byCredit) : IsRegularIncome(g)}),
         recurringExpenses |->
             filterValues(byDebit, {g \in Values(byDebit) : IsRecurringExpense(g)})]

ExceedsVelocityLimitInclusive(group) == Len(group) >= velocityLimit

\* group => group.length > this.fraudThresholds.velocityLimit
ExceedsVelocityLimit(group) == Len(group) > velocityLimit

IsSuspiciousHourExclusive(hour) ==
    hour > suspiciousTimeRangeStart \/ hour < suspiciousTimeRangeEnd

\* hour >= suspiciousTimeRange.start || hour <= suspiciousTimeRange.end
IsSuspiciousHour(hour) ==
    hour >= suspiciousTimeRangeStart \/ hour <= suspiciousTimeRangeEnd

\* toISOString() of an Invalid Date throws RangeError
detectFraudIndicatorsThrows(txs) == \E i \in 1..Len(txs) : ~txs[i].date.valid

detectFraudIndicators(txs, tz) ==
    LET byHour == groupByIsoHour(txs)
    IN  [highVelocity  |->
             filterValues(byHour, {g \in Values(byHour) : ExceedsVelocityLimit(g)}),
         unusualTiming |->
             SelectSeq(txs, LAMBDA t : t.date.valid /\ IsSuspiciousHour(getHours(t.date, tz)))]

---------------------------------------------------------------------------
(* JavaScript numbers produced by division, and > on them *)

NaN == [nan |-> TRUE, num |-> 0, den |-> 1]

Number(n) == [nan |-> FALSE, num |-> n, den |-> 1]

\* a / b on numbers: 0 / 0 is NaN (no exception is raised)
Divide(a, b) ==
    IF b = 0
    THEN (IF a = 0 THEN NaN ELSE [nan |-> FALSE, num |-> a, den |-> 0])
    ELSE [nan |-> FALSE, num |-> a, den |-> b]

GtNaNIsTrue(x, y) ==
    x.nan \/ y.nan \/ x.num * y.den > y.num * x.den

GtOrEqual(x, y) ==
    ~x.nan /\ ~y.nan /\ x.num * y.den >= y.num * x.den

\* x > y: false whenever an operand is NaN (or undefined, which converts to NaN)
Gt(x, y) ==
    ~x.nan /\ ~y.nan /\ x.num * y.den > y.num * x.den

Sum(xs) ==
    LET acc[i \in 0..Len(xs)] == IF i = 0 THEN 0 ELSE acc[i - 1] + xs[i]
    IN  acc[Len(xs)]

\* _.mean(array): baseSum(array) / array.length, NaN for an empty array
mean(xs) == IF Len(xs) = 0 THEN NaN ELSE Divide(Sum(xs), Len(xs))

\* _.max(array): undefined for an empty array (NaN under >)
max(xs) ==
    IF Len(xs) = 0 THEN NaN
    ELSE Number(CHOOSE m \in {xs[i] : i \in 1..Len(xs)} :
                    \A i \in 1..Len(xs) : xs[i] <= m)

---------------------------------------------------------------------------
(* analyzeBusinessOpportunities *)

digitalChannels == {"Net Banking Transfer", "UPI", "Card"}

\* 0.7
digitalRatioThreshold == [nan |-> FALSE, num |-> 7, den |-> 10]

averageBalanceThreshold == 100000

maxBalanceThreshold == 500000

PremiumCreditCard ==
    [product |-> "Premium Credit Card", confidence |-> <<8, 10>>,
     reasoning |-> "High digital transaction usage indicates comfort with cards"]

MutualFundInvestment ==
    [product |-> "Mutual Fund Investment", confidence |-> <<75, 100>>,
     reasoning |-> "Maintains healthy average balance"]

PremiumBankingAccount ==
    [product |-> "Premium Banking Account", eligibility |-> <<9, 10>>,
     justification |-> "High value transactions and balance maintenance"]

balances(txs) == [i \in 1..Len(txs) |-> txs[i].balance]

\* filter(t => digitalChannels.includes(t.channel)).length / transactions.length
digitalTransactions(txs) ==
    Divide(Len(SelectSeq(txs, LAMBDA t : t.channel \in digitalChannels)), Len(txs))

analyzeBusinessOpportunities(txs) ==
    LET averageBalance == mean(balances(txs))
        maxBalance     == max(balances(txs))
        cross0 == <<>>
        cross1 == IF Gt(digitalTransactions(txs), digitalRatioThreshold)
                  THEN Append(cross0, PremiumCreditCard) ELSE cross0
        cross2 == IF Gt(averageBalance, Number(averageBalanceThreshold))
                  THEN Append(cross1, MutualFundInvestment) ELSE cross1
        up1    == IF Gt(maxBalance, Number(maxBalanceThreshold))
                  THEN <<PremiumBankingAccount>> ELSE <<>>
    IN  [crossSell |-> cross2, upSell |-> up1]

---------------------------------------------------------------------------
(* Inputs of the engine *)

BoundedSeq(S, n) == UNION {[1..k -> S] : k \in 0..n}

\* hour:minute UTC on 2024-01-01, day 19723 since the epoch
At(hour, minute) == ValidDate(19723 * MinutesPerDay + hour * MinutesPerHour + minute)

\* UTC, New York (EST), India (IST)
HostTimeZones == {0, -300, 330}

PatternTransactions ==
    [date : {At(10, 0)}, amount : {1200, 50000}, type : {"Credit", "Debit", ""},
     channel : {"UPI"}, balance : {1000}]

\* 04:40, 05:10 and 05:40 UTC: one clock hour 10:xx in IST holds the first two
VelocityTransactions ==
    [date : {At(4, 40), At(5, 10), At(5, 40)}, amount : {1200}, type : {"Debit"},
     channel : {"UPI"}, balance : {1000}]

TimingTransactions ==
    [date : {At(h, 30) : h \in 0..(HoursPerDay - 1)}, amount : {1200}, type : {"Debit"},
     channel : {"UPI"}, balance : {1000}]

OpportunityTransactions ==
    [date : {At(10, 0)}, amount : {1200}, type : {"Debit"},
     channel : {"Net Banking Transfer", "UPI", "Card", "ATM"},
     balance : {-600000, 100000, 500000, 600000}]

RatioTransactions ==
    [date : {At(10, 0)}, amount : {1200}, type : {"Debit"},
     channel : {"UPI", "ATM"}, balance : {100000}]

EngineTransactions ==
    [date : {At(10, 0), InvalidDate}, amount : {1200}, type : {"Credit", "Debit"},
     channel : {"UPI", "ATM"}, balance : {100000, 600000}]

---------------------------------------------------------------------------
(* Calls of the three analyses on a constructed BankAnalyzer *)

AnalyzeTransactionPatterns ==
    /\ patterns = Null
    /\ patterns' = analyzeTransactionPatterns(transactions)
    /\ UNCHANGED <<transactions, tzOffset, fraudIndicators, opportunities, thrown>>
    /\ UNCHANGED componentVars

DetectFraudIndicators ==
    /\ fraudIndicators = Null
    /\ thrown = NoMessage
    /\ IF detectFraudIndicatorsThrows(transactions)
       THEN /\ thrown' = "Invalid time value"
            /\ UNCHANGED fraudIndicators
       ELSE /\ fraudIndicators' = detectFraudIndicators(transactions, tzOffset)
            /\ UNCHANGED thrown
    /\ UNCHANGED <<transactions, tzOffset, patterns, opportunities>>
    /\ UNCHANGED componentVars

AnalyzeBusinessOpportunities ==
    /\ opportunities = Null
    /\ opportunities' = analyzeBusinessOpportunities(transactions)
    /\ UNCHANGED <<transactions, tzOffset, patterns, fraudIndicators, thrown>>
    /\ UNCHANGED componentVars

---------------------------------------------------------------------------
(* The component BankStatementAnalyzer *)

Undefined == [kind |-> "undefined"]

NumberCell(n) == [kind |-> "number", n |-> n]

DateCell(d) == [kind |-> "date", time |-> d.time]

StringCell(s) == [kind |-> "string", s |-> s]

\* new Date(cell): a Date cell is copied; undefined and text that is no date
\* give an Invalid Date
NewDate(cell) ==
    IF cell.kind = "date" THEN ValidDate(cell.time)
    ELSE IF cell.kind = "number" THEN ValidDate(cell.n)
    ELSE InvalidDate

\* ToBoolean of a cell value
Truthy(cell) ==
    IF cell.kind = "undefined" THEN FALSE
    ELSE IF cell.kind = "number" THEN cell.n # 0
    ELSE IF cell.kind = "string" THEN cell.s # ""
    ELSE TRUE

\* (row[9] || '').trim(), on cells without surrounding blanks
TypeOf(cell) == IF Truthy(cell) /\ cell.kind = "string" THEN cell.s ELSE ""

\* row => ({date: new Date(row[1]), amount: row[4], type: ..., channel: row[5], balance: row[6]})
RowToTransaction(row) ==
    [date |-> NewDate(row.c1), amount |-> row.c4, type |-> TypeOf(row.c9),
     channel |-> row.c5, balance |-> row.c6]

\* ToBoolean of a Date object: every object is truthy, an Invalid Date too
TruthyDate(d) == d.valid \/ ~d.valid

\* t => t.date && t.amount
KeepsTransaction(t) == TruthyDate(t.date) /\ Truthy(t.amount)

\* .map(...).filter(...); the amount of a kept transaction is the cell's number
ParseTransactions(rows) ==
    LET mapped == [i \in 1..Len(rows) |-> RowToTransaction(rows[i])]
        kept   == SelectSeq(mapped, KeepsTransaction)
    IN  [i \in 1..Len(kept) |-> [kept[i] EXCEPT !.amount = @.n]]

\* .map(row => ({day: row[0], balance: row[3] || 0})).filter(item => item.balance)
ParseBalances(rows) ==
    LET mapped == [i \in 1..Len(rows) |->
                     [day |-> rows[i].c0,
                      balance |-> IF Truthy(rows[i].c3) THEN rows[i].c3.n ELSE 0]]
    IN  SelectSeq(mapped, LAMBDA item : item.balance # 0)

SheetRowValues ==
    [c1 : {DateCell(At(10, 0)), Undefined, StringCell("n/a")},
     c4 : {Undefined, NumberCell(0), NumberCell(1200)},
     c5 : {"UPI"}, c6 : {100000}, c9 : {StringCell("Credit")}]

BalanceRows == <<[c0 |-> 1, c3 |-> NumberCell(5000)], [c0 |-> 2, c3 |-> Undefined]>>

NoFile ==
    [present |-> FALSE, ext |-> "", parses |-> FALSE, hasTransactions |-> FALSE,
     rows |-> <<>>, hasBalances |-> FALSE, balanceRows |-> <<>>]

Workbooks ==
    [present : {TRUE}, ext : {".xlsx"}, parses : {TRUE}, hasTransactions : {TRUE},
     rows : BoundedSeq(SheetRowValues, MaxRows),
     hasBalances : {FALSE}, balanceRows : {<<>>}]
    \cup
    [present : {TRUE}, ext : {".xlsx"}, parses : {TRUE}, hasTransactions : BOOLEAN,
     rows : BoundedSeq(SheetRowValues, 1),
     hasBalances : {TRUE}, balanceRows : {BalanceRows}]

Files ==
    {NoFile,
     [NoFile EXCEPT !.present = TRUE, !.ext = ".txt"],
     [NoFile EXCEPT !.present = TRUE, !.ext = ".xlsx"],
     [NoFile EXCEPT !.present = TRUE, !.ext = ".xlsx", !.parses = TRUE]}
    \cup Workbooks

\* file && file.name.endsWith('.xlsx')
IsExcelFile(file) == file.present /\ file.ext = ".xlsx"

\* the value processFile passes to setResults
Analysis(txs, tz) ==
    [patterns        |-> analyzeTransactionPatterns(txs),
     fraudIndicators |-> detectFraudIndicators(txs, tz),
     opportunities   |-> analyzeBusinessOpportunities(txs)]

\* message of the exception the body of processFile raises on `file`, or NoMessage
FailureOf(file) ==
    IF ~file.parses THEN "Unsupported file"
    ELSE IF ~file.hasTransactions THEN "No Transactions sheet found in the uploaded file"
    ELSE IF detectFraudIndicatorsThrows(ParseTransactions(file.rows)) THEN "Invalid time value"
    ELSE NoMessage

\* handleDrop / handleFileInput up to the await inside processFile
Upload(file) ==
    /\ started < MaxUploads
    /\ started' = started + 1
    /\ IF IsExcelFile(file)
       THEN /\ loading' = TRUE
            /\ error' = NoMessage
            /\ pending' = pending \cup {[id |-> started + 1, file |-> file]}
            /\ latest' = [id |-> started + 1, file |-> file]
       ELSE /\ error' = "Please upload an Excel (.xlsx) file"
            /\ UNCHANGED <<loading, pending, latest>>
    /\ UNCHANGED <<results, balanceTrend, sheetRows>>
    /\ UNCHANGED engineVars

HandleDrop == \E file \in Files : Upload(file)

HandleFileInput == \E file \in Files : Upload(file)

\* processFile from the resolution of file.arrayBuffer() to the end of finally
ProcessFileResume ==
    \E call \in pending :
        LET file == call.file
            txs  == ParseTransactions(file.rows)
        IN  /\ pending' = pending \ {call}
            /\ loading' = FALSE
            /\ IF ~file.parses \/ ~file.hasTransactions
               THEN /\ error' = FailureOf(file)
                    /\ UNCHANGED <<results, balanceTrend, sheetRows, transactions>>
               ELSE /\ sheetRows' = file.rows
                    /\ transactions' = txs
                    /\ balanceTrend' = IF file.hasBalances
                                       THEN ParseBalances(file.balanceRows)
                                       ELSE balanceTrend
                    /\ IF detectFraudIndicatorsThrows(txs)
                       THEN /\ error' = FailureOf(file)
                            /\ UNCHANGED results
                       ELSE /\ results' = Analysis(txs, tzOffset)
                            /\ UNCHANGED error
            /\ UNCHANGED <<started, latest, tzOffset, patterns, fraudIndicators,
                           opportunities, thrown>>

---------------------------------------------------------------------------
(* Specifications *)

InitComponent ==
    /\ results = Null
    /\ loading = FALSE
    /\ error = NoMessage
    /\ balanceTrend = <<>>
    /\ pending = {}
    /\ started = 0
    /\ latest = Null
    /\ sheetRows = <<>>

InitCalls ==
    /\ patterns = Null
    /\ fraudIndicators = Null
    /\ opportunities = Null
    /\ thrown = NoMessage

Init ==
    /\ InitComponent
    /\ InitCalls
    /\ transactions = <<>>
    /\ tzOffset \in HostTimeZones

Next == HandleDrop \/ HandleFileInput \/ ProcessFileResume

Spec == Init /\ [][Next]_vars

InitPatterns ==
    /\ InitComponent
    /\ InitCalls
    /\ transactions \in BoundedSeq(PatternTransactions, MaxPatternTx)
    /\ tzOffset = 0

SpecPatterns == InitPatterns /\ [][AnalyzeTransactionPatterns]_vars

InitFraud ==
    /\ InitComponent
    /\ InitCalls
    /\ transactions \in BoundedSeq(VelocityTransactions, MaxVelocityTx)
                        \cup BoundedSeq(TimingTransactions, MaxTimingTx)
    /\ tzOffset \in HostTimeZones

SpecFraud == InitFraud /\ [][DetectFraudIndicators]_vars

InitOpportunities ==
    /\ InitComponent
    /\ InitCalls
    /\ transactions \in BoundedSeq(OpportunityTransactions, MaxOppTx)
                        \cup BoundedSeq(RatioTransactions, MaxRatioTx)
    /\ tzOffset = 0

SpecOpportunities == InitOpportunities /\ [][AnalyzeBusinessOpportunities]_vars

InitEngine ==
    /\ InitComponent
    /\ InitCalls
    /\ transactions \in BoundedSeq(EngineTransactions, MaxEngineTx)
    /\ tzOffset \in HostTimeZones

NextEngine ==
    AnalyzeTransactionPatterns \/ DetectFraudIndicators \/ AnalyzeBusinessOpportunities

SpecEngine == InitEngine /\ [][NextEngine]_vars

---------------------------------------------------------------------------
(* Properties *)

Range(seq) == {seq[i] : i \in 1..Len(seq)}

\* how many entries of the array `seq` equal x
Occurrences(x, seq) == Cardinality({i \in 1..Len(seq) : seq[i] = x})

AmountsPresent == {t.amount : t \in Range(transactions)}

CreditsOf(a) == SelectSeq(transactions, LAMBDA t : t.type = "Credit" /\ t.amount = a)

DebitsOf(a) == SelectSeq(transactions, LAMBDA t : t.type = "Debit" /\ t.amount = a)

\* C1: regularIncome holds exactly the groups of Credit transactions of one
\* amount with 3 or more members, recurringExpenses exactly the groups of Debit
\* transactions of one amount with 2 or more members; each group holds all the
\* transactions of its type and amount, once, and nothing else is returned.
C1_PatternGroups ==
    patterns # Null =>
        /\ \A a \in AmountsPresent :
              /\ Occurrences(CreditsOf(a), patterns.regularIncome)
                    = IF Len(CreditsOf(a)) >= 3 THEN 1 ELSE 0
              /\ Occurrences(DebitsOf(a), patterns.recurringExpenses)
                    = IF Len(DebitsOf(a)) >= 2 THEN 1 ELSE 0
        /\ \A g \in Range(patterns.regularIncome) :
              \E a \in AmountsPresent : g = CreditsOf(a) /\ Len(g) >= 3
        /\ \A g \in Range(patterns.recurringExpenses) :
              \E a \in AmountsPresent : g = DebitsOf(a) /\ Len(g) >= 2

\* three credits of one amount are reported while two credits of another
\* amount and a lone debit are not
C1_Witness ==
    /\ patterns # Null
    /\ Len(patterns.regularIncome) = 1
    /\ patterns.recurringExpenses = <<>>
    /\ \E a \in AmountsPresent : Len(CreditsOf(a)) = 2
    /\ \E a \in AmountsPresent : Len(DebitsOf(a)) = 1

\* C7: regularIncome and recurringExpenses are keyed by the shared amount: the
\* key of every entry equals the amount of each of its member transactions.
C7_KeyedByAmount ==
    patterns # Null =>
        /\ \A i \in 1..Len(patterns.regularIncome) :
              \A t \in Range(patterns.regularIncome[i]) :
                  ToString(i - 1) = ToString(t.amount)
        /\ \A i \in 1..Len(patterns.recurringExpenses) :
              \A t \in Range(patterns.recurringExpenses[i]) :
                  ToString(i - 1) = ToString(t.amount)

\* the timestamp truncated to the hour: whole hours since the epoch, UTC
UtcHourOf(t) == t.date.time \div 60

UtcBucket(h) == SelectSeq(transactions, LAMBDA t : UtcHourOf(t) = h)

\* the hour on the host's clock: whole hours since the epoch, local time
LocalHourOf(t) == (t.date.time + tzOffset) \div 60

LocalBucket(h) == SelectSeq(transactions, LAMBDA t : LocalHourOf(t) = h)

\* C2: an hour bucket (of the UTC timestamp) is in highVelocity iff it holds
\* more than 5 transactions; a reported bucket is the whole bucket, all of
\* whose members share the hour; buckets of at most 5 are never reported.
C2_VelocityBuckets ==
    fraudIndicators # Null =>
        /\ \A t \in Range(transactions) :
              Occurrences(UtcBucket(UtcHourOf(t)), fraudIndicators.highVelocity)
                 = IF Len(UtcBucket(UtcHourOf(t))) > 5 THEN 1 ELSE 0
        /\ \A g \in Range(fraudIndicators.highVelocity) :
              \E t \in Range(transactions) : g = UtcBucket(UtcHourOf(t))

\* eight transactions, six in one hour and two in the next: the six are
\* reported in full, the two are not
C2_Witness ==
    /\ fraudIndicators # Null
    /\ Len(transactions) = 8
    /\ Len(fraudIndicators.highVelocity) = 1
    /\ Len(fraudIndicators.highVelocity[1]) = 6
    /\ \E t \in Range(transactions) : Len(UtcBucket(UtcHourOf(t))) = 2

\* C5: six transactions within one clock hour of the host are reported as one
\* highVelocity bucket holding all six (and nothing of another hour), whatever
\* the host's time zone.
C5_SameClockHourFlagged ==
    fraudIndicators # Null =>
        \A t \in Range(transactions) :
            Len(LocalBucket(LocalHourOf(t))) = 6 =>
                \E g \in Range(fraudIndicators.highVelocity) :
                    g = LocalBucket(LocalHourOf(t))

\* the hour of day on the host's clock
ClockHour(t) == LocalHourOf(t) % 24

\* C8: a transaction is in unusualTiming iff its local hour is one of 23, 0, 1,
\* 2, 3, 4, whether or not it is also in a highVelocity bucket.
C8_UnusualTiming ==
    fraudIndicators # Null =>
        fraudIndicators.unusualTiming
            = SelectSeq(transactions, LAMBDA t : ClockHour(t) \in {23, 0, 1, 2, 3, 4})

\* a transaction at local hour 4 is in a highVelocity bucket and in
\* unusualTiming, and one at local hour 5 is in neither
C8_Witness ==
    /\ fraudIndicators # Null
    /\ \E g \in Range(fraudIndicators.highVelocity) :
          \E t \in Range(g) :
              t \in Range(fraudIndicators.unusualTiming) /\ ClockHour(t) = 4
    /\ \E t \in Range(transactions) :
          t \notin Range(fraudIndicators.unusualTiming) /\ ClockHour(t) = 5

\* C3: on an empty transaction list no call raises an error and every output
\* is empty; no opportunity rule fires on 0 / 0, the mean or the max of nothing.
C3_EmptyInput ==
    transactions = <<>> =>
        /\ thrown = NoMessage
        /\ patterns # Null =>
              patterns.regularIncome = <<>> /\ patterns.recurringExpenses = <<>>
        /\ fraudIndicators # Null =>
              fraudIndicators.highVelocity = <<>> /\ fraudIndicators.unusualTiming = <<>>
        /\ opportunities # Null =>
              opportunities.crossSell = <<>> /\ opportunities.upSell = <<>>

\* the three analyses have all run on the empty list
C3_Witness ==
    /\ transactions = <<>>
    /\ patterns # Null
    /\ fraudIndicators # Null
    /\ opportunities # Null

DigitalCount ==
    Cardinality({i \in 1..Len(transactions) :
                    transactions[i].channel \in {"Net Banking Transfer", "UPI", "Card"}})

BalanceTotal == Sum([i \in 1..Len(transactions) |-> transactions[i].balance])

CrossSellCount(product, confidence) ==
    Cardinality({i \in 1..Len(opportunities.crossSell) :
                    /\ opportunities.crossSell[i].product = product
                    /\ opportunities.crossSell[i].confidence = confidence})

UpSellCount(product, eligibility) ==
    Cardinality({i \in 1..Len(opportunities.upSell) :
                    /\ opportunities.upSell[i].product = product
                    /\ opportunities.upSell[i].eligibility = eligibility})

\* C4: on a non-empty list the premium card (0.8) is in crossSell iff the
\* digital share exceeds 0.7, the investment (0.75) iff the mean balance
\* exceeds 100000, the premium account (0.9) is in upSell iff the maximum
\* balance exceeds 500000; each at most once, nothing else, card first.
C4_OpportunityRules ==
    (opportunities # Null /\ transactions # <<>>) =>
        LET n     == Len(transactions)
            cards == CrossSellCount("Premium Credit Card", <<8, 10>>)
            funds == CrossSellCount("Mutual Fund Investment", <<75, 100>>)
            accts == UpSellCount("Premium Banking Account", <<9, 10>>)
        IN  /\ cards = IF 10 * DigitalCount > 7 * n THEN 1 ELSE 0
            /\ funds = IF BalanceTotal > 100000 * n THEN 1 ELSE 0
            /\ accts = IF \E t \in Range(transactions) : t.balance > 500000 THEN 1 ELSE 0
            /\ Len(opportunities.crossSell) = cards + funds
            /\ Len(opportunities.upSell) = accts
            /\ (cards = 1 /\ funds = 1) =>
                  opportunities.crossSell[1].product = "Premium Credit Card"

\* exactly 7 of 10 transactions are digital (share 0.7, the card rule does not
\* fire) while the mean balance is at the threshold too
C4_Witness ==
    /\ opportunities # Null
    /\ Len(transactions) = 10
    /\ DigitalCount = 7
    /\ opportunities.crossSell = <<>>

\* a row of the sheet with a parseable date cell and a defined amount cell
RowIsValid(row) == row.c1.kind = "date" /\ row.c4.kind # "undefined"

\* C6: the transactions handed to the BankAnalyzer are exactly the rows of the
\* sheet with a valid date and a defined amount (amount 0 included): every one
\* of them has a valid date, and no such row is dropped.
C6_OnlyValidRowsAnalyzed ==
    LET valid == SelectSeq(sheetRows, RowIsValid)
    IN  /\ \A t \in Range(transactions) : t.date.valid
        /\ Len(transactions) = Len(valid)
        /\ \A i \in 1..Len(valid) :
              /\ transactions[i].date = ValidDate(valid[i].c1.time)
              /\ transactions[i].amount = valid[i].c4.n

\* C9: whenever the component holds an error it holds no analysis result.
C9_ErrorExcludesResults == error # NoMessage => results = Null

\* C10: loading is true exactly while some processFile invocation is in
\* progress, and once all have finished results and error are those of the
\* upload started last.
C10_LoadingAndLatestUpload ==
    /\ loading = (pending # {})
    /\ (pending = {} /\ latest # Null /\ latest.id = started) =>
          IF FailureOf(latest.file) = NoMessage
          THEN /\ results = Analysis(ParseTransactions(latest.file.rows), tzOffset)
               /\ error = NoMessage
          ELSE error = FailureOf(latest.file)

=============================================================================
